---- MODULE Spec2Model ----
(***************************************************************************)
(* Conversion-log harvester (index.js): bootstrap / incremental harvest,   *)
(* fingerprint dedup with a capped seen-list, monthly aggregates and one   *)
(* notification per new event.                                             *)
(*                                                                         *)
(* Text is modelled as a sequence of one-character strings, so that        *)
(* whitespace normalisation, slicing, substring tests and string order are *)
(* computed rather than assumed.                                           *)
(***************************************************************************)
EXTENDS Integers, Sequences, FiniteSets, TLC

----------------------------------------------------------------------------
(* Bounds of the model *)

\* rows the site's log can hold in a behaviour
MaxRows == 5
\* runs of main in a behaviour
MaxRuns == 3
\* largest page size of the site
MaxPageSize == 2
\* largest value of MAX_PAGES / MAX_PAGES_NORMAL
MaxPagesBound == 3
\* longest list drawn as an argument of mergeSeenKeys
MaxListLen == 3
\* largest cap drawn as an argument of mergeSeenKeys
MaxCap == 3

\* the cap of the seen-list: mergeSeenKeys' default maxItems, 3000 in the
\* source, scaled down so that tables of MaxRows rows reach the truncation
MaxItems == 3

(* Program constants *)

\* getTableSignature: slice(0, 2000)
SigMaxLen == 2000
\* scoreTable: score * 1000 + rows
ScoreWeight == 1000
\* monthKeyFrom: s.length >= 7, slice(0, 7)
MonthKeyLen == 7

----------------------------------------------------------------------------
(* Text helpers *)

WhiteSpace == {" ", "\t", "\n"}

\* characters in UTF-16 code-unit order (the order JS compares strings by)
Alphabet ==
  << "\t", "\n", " ", "-", "0", "1", "2", "3", "4", "5", "6", "7", "8", "9",
     "A", "B", "C", "D", "a", "b", "c", "d", "k", "n", "o", "u", "w", "|" >>

CharCode(c) == CHOOSE i \in 1..Len(Alphabet) : Alphabet[i] = c

RECURSIVE StrLess(_, _)
\* a < b on JS strings
StrLess(a, b) ==
  IF b = << >> THEN FALSE
  ELSE IF a = << >> THEN TRUE
  ELSE IF Head(a) = Head(b) THEN StrLess(Tail(a), Tail(b))
  ELSE CharCode(Head(a)) < CharCode(Head(b))

RECURSIVE dropLeadingWs(_)
dropLeadingWs(s) ==
  IF s # << >> /\ Head(s) \in WhiteSpace THEN dropLeadingWs(Tail(s)) ELSE s

RECURSIVE dropTrailingWs(_)
dropTrailingWs(s) ==
  IF s # << >> /\ s[Len(s)] \in WhiteSpace
  THEN dropTrailingWs(SubSeq(s, 1, Len(s) - 1))
  ELSE s

\* String.prototype.trim
trim(s) == dropTrailingWs(dropLeadingWs(s))

RECURSIVE collapseWs(_)
\* replace(/\s+/g, " ")
collapseWs(s) ==
  IF s = << >> THEN << >>
  ELSE IF Head(s) \in WhiteSpace
       THEN << " " >> \o collapseWs(dropLeadingWs(Tail(s)))
       ELSE << Head(s) >> \o collapseWs(Tail(s))

norm(s) == trim(collapseWs(s))

\* String.prototype.includes
Includes(h, n) ==
  \E i \in 0..(Len(h) - Len(n)) : SubSeq(h, i + 1, i + Len(n)) = n

\* String.prototype.slice(0, n)
Slice0(s, n) == IF Len(s) <= n THEN s ELSE SubSeq(s, 1, n)

RECURSIVE JoinWith(_, _)
\* Array.prototype.join
JoinWith(parts, sep) ==
  IF parts = << >> THEN << >>
  ELSE IF Len(parts) = 1 THEN parts[1]
  ELSE parts[1] \o sep \o JoinWith(Tail(parts), sep)

RECURSIVE Reverse(_)
Reverse(s) == IF s = << >> THEN << >> ELSE Reverse(Tail(s)) \o << Head(s) >>

Range(s) == { s[i] : i \in 1..Len(s) }

----------------------------------------------------------------------------
(* Pure functions of index.js *)

Unknown == << "u", "n", "k", "n", "o", "w", "n" >>

monthKeyFrom(dateTimeStr) ==
  LET s == norm(dateTimeStr) IN
  IF Len(s) >= MonthKeyLen THEN Slice0(s, MonthKeyLen) ELSE Unknown

\* the sha1 digest, taken as injective on its input string
sha1(s) == s

\* a variant that looks the ad name up before the ad id
getUnitPriceNameFirst(prices, adId, adName) ==
  LET id == trim(adId)
      name == trim(adName)
  IN  IF name # << >> /\ name \in DOMAIN prices.byAdName THEN prices.byAdName[name]
      ELSE IF id # << >> /\ id \in DOMAIN prices.byAdId
           THEN prices.byAdId[id]
           ELSE prices.defaultUnitPrice

\* prices.byAdId / byAdName are functions whose domain is the keys present
getUnitPrice(prices, adId, adName) ==
  LET id == trim(adId)
      name == trim(adName)
  IN  IF id # << >> /\ id \in DOMAIN prices.byAdId THEN prices.byAdId[id]
      ELSE IF name # << >> /\ name \in DOMAIN prices.byAdName
           THEN prices.byAdName[name]
           ELSE prices.defaultUnitPrice

RECURSIVE mergeLoopUncapped(_, _, _, _, _)
\* a variant of the loop without the break on out.length >= maxItems
mergeLoopUncapped(all, i, seen, outRev, maxItems) ==
  IF i < 1 THEN outRev
  ELSE LET k == all[i] IN
       IF k = << >> \/ k \in seen
       THEN mergeLoopUncapped(all, i - 1, seen, outRev, maxItems)
       ELSE mergeLoopUncapped(all, i - 1, seen \cup {k}, Append(outRev, k), maxItems)

RECURSIVE mergeLoop(_, _, _, _, _)
\* the loop of mergeSeenKeys: i runs from all.length down to 1
mergeLoop(all, i, seen, outRev, maxItems) ==
  IF i < 1 THEN outRev
  ELSE LET k == all[i] IN
       IF k = << >> THEN mergeLoop(all, i - 1, seen, outRev, maxItems)
       ELSE IF k \in seen THEN mergeLoop(all, i - 1, seen, outRev, maxItems)
       ELSE LET o2 == Append(outRev, k) IN
            IF Len(o2) >= maxItems THEN o2
            ELSE mergeLoop(all, i - 1, seen \cup {k}, o2, maxItems)

\* a variant that walks the list from its front: the first occurrence of a
\* value is the one kept, and the cap keeps the front
mergeSeenKeysKeepFirst(prev, add, maxItems) ==
  LET all == Reverse(prev \o add) IN
  mergeLoop(all, Len(all), {}, << >>, maxItems)

mergeSeenKeys(prev, add, maxItems) ==
  LET all == prev \o add IN
  Reverse(mergeLoop(all, Len(all), {}, << >>, maxItems))

RECURSIVE uniqLoop(_, _, _)
uniqLoop(items, s, out) ==
  IF items = << >> THEN out
  ELSE LET x == Head(items) IN
       IF x.key = << >> \/ x.key \in s THEN uniqLoop(Tail(items), s, out)
       ELSE uniqLoop(Tail(items), s \cup {x.key}, Append(out, x))

\* a variant that drops the items without a key and keeps every other one
uniqByKeyKeepsAll(items) == SelectSeq(items, LAMBDA x : x.key # << >>)

uniqByKey(items) == uniqLoop(items, {}, << >>)

NoEvent == [key |-> << >>]

\* a variant of the map whose key source ends with the status
normalizeRowKeyWithStatus(r, prices) ==
  LET orderAt == norm(r.orderAt)
      clickAt == norm(r.clickAt)
      eventAt == IF orderAt # << >> THEN orderAt ELSE clickAt
      adId == norm(r.adId)
      adName == norm(r.adName)
      adKey == IF adId # << >> THEN adId ELSE adName
      keySource ==
        JoinWith(<< eventAt, adKey, norm(r.siteName), norm(r.os),
                    norm(r.referrer), adName, norm(r.status) >>, << "|" >>)
  IN  IF eventAt = << >> \/ adKey = << >> THEN NoEvent
      ELSE [ key |-> sha1(keySource), eventAt |-> eventAt, orderAt |-> orderAt,
             clickAt |-> clickAt, adId |-> adId, adName |-> adName,
             siteName |-> norm(r.siteName), os |-> norm(r.os),
             referrer |-> norm(r.referrer),
             unit |-> getUnitPrice(prices, adId, adName),
             monthKey |-> monthKeyFrom(eventAt) ]

\* one row of normalizeRows' map; NoEvent stands for null
normalizeRow(r, prices) ==
  LET orderAt == norm(r.orderAt)
      clickAt == norm(r.clickAt)
      eventAt == IF orderAt # << >> THEN orderAt ELSE clickAt
      adId == norm(r.adId)
      adName == norm(r.adName)
      siteName == norm(r.siteName)
      os == norm(r.os)
      referrer == norm(r.referrer)
      adKey == IF adId # << >> THEN adId ELSE adName
      keySource ==
        JoinWith(<< eventAt, adKey, siteName, os, referrer, adName >>, << "|" >>)
  IN  IF eventAt = << >> \/ adKey = << >> THEN NoEvent
      ELSE [ key |-> sha1(keySource), eventAt |-> eventAt, orderAt |-> orderAt,
             clickAt |-> clickAt, adId |-> adId, adName |-> adName,
             siteName |-> siteName, os |-> os, referrer |-> referrer,
             unit |-> getUnitPrice(prices, adId, adName),
             monthKey |-> monthKeyFrom(eventAt) ]

RECURSIVE normalizeRowsReversed(_, _)
\* a variant that emits the Events last row first
normalizeRowsReversed(rows, prices) ==
  IF rows = << >> THEN << >>
  ELSE LET e == normalizeRow(Head(rows), prices) IN
       normalizeRowsReversed(Tail(rows), prices)
       \o (IF e = NoEvent THEN << >> ELSE << e >>)

RECURSIVE normalizeRows(_, _)
\* rows.map(...).filter(Boolean)
normalizeRows(rows, prices) ==
  IF rows = << >> THEN << >>
  ELSE LET e == normalizeRow(Head(rows), prices) IN
       (IF e = NoEvent THEN << >> ELSE << e >>) \o normalizeRows(Tail(rows), prices)

----------------------------------------------------------------------------
(* The rendered document: a sequence of tables, each with the texts of its *)
(* thead th cells and, per tbody tr, the texts of its td cells             *)

\* headerMap of main, with the header texts abbreviated
HeaderMap ==
  [ orderAt |-> << "O", "t" >>, clickAt |-> << "C", "t" >>,
    adId |-> << "A", "i" >>, adName |-> << "A", "n" >>,
    siteName |-> << "S", "n" >>, os |-> << "O", "S" >>,
    referrer |-> << "R", "f" >>, status |-> << "S", "t" >> ]

normAll(cells) == [i \in 1..Len(cells) |-> norm(cells[i])]

\* h === n || h.includes(n)
headerMatches(h, n) == h = n \/ Includes(h, n)

\* need of extractRowsFromBestTable's scoreTable
NeedExtract(hm) ==
  << hm.orderAt, hm.adId, hm.adName, hm.siteName, hm.clickAt, hm.os, hm.referrer >>

\* need of getTableSignature's scoreTable
NeedSignature(hm) == << hm.orderAt, hm.adId, hm.adName >>

scoreTable(t, need) ==
  LET headers == normAll(t.headers)
      score == Cardinality({ i \in 1..Len(need) :
                 /\ need[i] # << >>
                 /\ \E j \in 1..Len(headers) : headerMatches(headers[j], need[i]) })
  IN  score * ScoreWeight + Len(t.rows)

\* tables.map(scoreTable).sort((a, b) => b.s - a.s)[0]: the first table of
\* the greatest score (the sort is stable); 0 when the document has no table
bestTable(tables, need) ==
  IF tables = << >> THEN 0
  ELSE CHOOSE i \in 1..Len(tables) :
         /\ \A j \in 1..Len(tables) :
              scoreTable(tables[j], need) <= scoreTable(tables[i], need)
         /\ \A j \in 1..(i - 1) :
              scoreTable(tables[j], need) < scoreTable(tables[i], need)

\* 0 stands for -1 (indices are 1-based here)
headerIndex(headers, target) ==
  IF target = << >> THEN 0
  ELSE IF \E i \in 1..Len(headers) : headers[i] = target
       THEN CHOOSE i \in 1..Len(headers) :
              /\ headers[i] = target
              /\ \A j \in 1..(i - 1) : headers[j] # target
  ELSE IF \E i \in 1..Len(headers) : Includes(headers[i], target)
       THEN CHOOSE i \in 1..Len(headers) :
              /\ Includes(headers[i], target)
              /\ \A j \in 1..(i - 1) : ~Includes(headers[j], target)
  ELSE 0

\* the predicate waitForCvTable waits for
tableReady(tables, hm) ==
  \E i \in 1..Len(tables) :
    LET ths == normAll(tables[i].headers) IN
    /\ \E j \in 1..Len(ths) : headerMatches(ths[j], hm.orderAt)
    /\ \E j \in 1..Len(ths) : headerMatches(ths[j], hm.adId)
    /\ \E j \in 1..Len(ths) : headerMatches(ths[j], hm.adName)
    /\ Len(tables[i].rows) > 0

RECURSIVE extractTrs(_, _)
\* the loop over the tr of the best table
extractTrs(trs, idx) ==
  IF trs = << >> THEN << >>
  ELSE LET tds == normAll(Head(trs))
           get(i) == IF i >= 1 /\ i <= Len(tds) THEN tds[i] ELSE << >>
       IN  (IF tds = << >> THEN << >>
            ELSE << [ orderAt |-> get(idx.orderAt), clickAt |-> get(idx.clickAt),
                      adId |-> get(idx.adId), adName |-> get(idx.adName),
                      siteName |-> get(idx.siteName), os |-> get(idx.os),
                      referrer |-> get(idx.referrer), status |-> get(idx.status) ] >>)
           \o extractTrs(Tail(trs), idx)

\* the page.evaluate of extractRowsFromBestTable (after the wait succeeded)
extractRowsFromBestTable(tables, hm) ==
  LET b == bestTable(tables, NeedExtract(hm)) IN
  IF b = 0 THEN << >>
  ELSE LET headers == normAll(tables[b].headers)
           idx == [ orderAt |-> headerIndex(headers, hm.orderAt),
                    clickAt |-> headerIndex(headers, hm.clickAt),
                    adId |-> headerIndex(headers, hm.adId),
                    adName |-> headerIndex(headers, hm.adName),
                    siteName |-> headerIndex(headers, hm.siteName),
                    os |-> headerIndex(headers, hm.os),
                    referrer |-> headerIndex(headers, hm.referrer),
                    status |-> headerIndex(headers, hm.status) ]
       IN  extractTrs(tables[b].rows, idx)

\* tr.innerText: the cell texts separated by tabs
innerText(tds) == JoinWith(tds, << "\t" >>)

\* a variant that does not read the rows: the same text for every page
getTableSignatureBlind(tables, hm) ==
  IF bestTable(tables, NeedSignature(hm)) = 0 THEN << >> ELSE << "|", "|" >>

getTableSignature(tables, hm) ==
  LET b == bestTable(tables, NeedSignature(hm)) IN
  IF b = 0 THEN << >>
  ELSE LET trs == tables[b].rows
           first == IF trs = << >> THEN << >> ELSE innerText(trs[1])
           last == IF trs = << >> THEN << >> ELSE innerText(trs[Len(trs)])
       IN  Slice0(first \o << "|", "|" >> \o last, SigMaxLen)

----------------------------------------------------------------------------
(* The site: its conversion log, newest row first, shown a page at a time, *)
(* and prices.json                                                         *)

M05 == << "2", "0", "2", "4", "-", "0", "5" >>
M06 == << "2", "0", "2", "4", "-", "0", "6" >>
M07 == << "2", "0", "2", "4", "-", "0", "7" >>

\* the months the clock passes through, in order
Months == << M06, M07 >>

Digit(i) == Alphabet[5 + (i % 10)]

\* the thead of the conversion table
CvHeaders ==
  << HeaderMap.orderAt, HeaderMap.clickAt, HeaderMap.adId, HeaderMap.adName,
     HeaderMap.siteName, HeaderMap.os, HeaderMap.referrer, HeaderMap.status >>

\* the td texts of a row, in the order of CvHeaders
Tds(orderAt, clickAt, adId, adName, status) ==
  << orderAt, clickAt, adId, adName, << "s" >>, << "i" >>, << >>, status >>

\* the i-th row the site logs (row 1 is the oldest); rows 4 and 5 differ in
\* the status only; row 4 carries stray whitespace
LogRow(i) ==
  CASE i = 1 -> Tds(M05 \o << "-", "1" >>, << >>, << "7" >>, << "A" >>, << "o" >>)
    [] i = 2 -> Tds(M05 \o << "-", "2" >>, << >>, << "8" >>, << "B" >>, << "o" >>)
    [] i = 3 -> Tds(M06 \o << "-", "1" >>, << >>, << "9" >>, << "C" >>, << "o" >>)
    [] i = 4 -> Tds(<< " " >> \o M06 \o << "-", "2", " " >>, << >>, << >>,
                    << "B", " " >>, << "o" >>)
    [] i = 5 -> Tds(M06 \o << "-", "2" >>, << >>, << >>, << "B" >>, << "n" >>)
    [] i = 6 -> Tds(M07 \o << "-", "1" >>, << >>, << "7" >>, << "A" >>, << "o" >>)
    [] OTHER -> Tds(<< >>, M07 \o << "-", Digit(i) >>, << "7" >>, << "A" >>, << "o" >>)

\* the month a row is logged in
RowMonth(i) == IF i <= 2 THEN M05 ELSE IF i <= 5 THEN M06 ELSE M07

\* prices.json: ad 7 has a price, ad 8 the price 0, ad 9 none; the name B
\* has a price
Prices ==
  [ byAdId |-> (<< "7" >> :> 100 @@ << "8" >> :> 0),
    byAdName |-> (<< "B" >> :> 50),
    defaultUnitPrice |-> 0 ]

\* the log when n rows have been logged: row numbers, newest first
LogTable(n) == [i \in 1..n |-> n - i + 1]

\* does the log of n rows have a page after page pageNo
HasNext(n, pageNo, pageSize) == pageNo * pageSize < n

\* the rows of page pageNo
PageRows(n, pageNo, pageSize) ==
  LET lo == (pageNo - 1) * pageSize + 1
      hi == IF pageNo * pageSize < n THEN pageNo * pageSize ELSE n
  IN  SubSeq(LogTable(n), lo, hi)

\* the document that shows the rows of a view
Doc(v) ==
  << [ headers |-> CvHeaders,
       rows |-> [i \in 1..Len(v.rows) |-> LogRow(v.rows[i])] ] >>

\* the view of page 1, as page.goto(CV_LOG_URL) renders it
FirstView(n, pageSize) == [pageNo |-> 1, rows |-> PageRows(n, 1, pageSize)]

\* the view after an activation of the pager that takes effect
NextView(v, n, pageSize) ==
  IF HasNext(n, v.pageNo, pageSize)
  THEN [pageNo |-> v.pageNo + 1, rows |-> PageRows(n, v.pageNo + 1, pageSize)]
  ELSE v

\* every sequence of rows a view can show
ViewRows ==
  { PageRows(n, pageNo, pageSize) :
      n \in 0..MaxRows, pageNo \in 1..(MaxRows + 1), pageSize \in 1..MaxPageSize }

\* what the code reads from the document of a view, tabulated per view
ReadyOf == [rows \in ViewRows |-> tableReady(Doc([rows |-> rows]), HeaderMap)]
SignatureOf == [rows \in ViewRows |-> getTableSignature(Doc([rows |-> rows]), HeaderMap)]
EventsOf ==
  [rows \in ViewRows |->
     normalizeRows(extractRowsFromBestTable(Doc([rows |-> rows]), HeaderMap), Prices)]

----------------------------------------------------------------------------
(* clickNextPage *)

\* a variant that reports a move as soon as one candidate was activated,
\* whatever the signature after it
tryClicksAnyClick(v, before, effs, i, n, pageSize) ==
  IF i > Len(effs) THEN [moved |-> FALSE, v |-> v]
  ELSE [moved |-> TRUE,
        v |-> IF effs[i] = "now" THEN NextView(v, n, pageSize) ELSE v]

RECURSIVE tryClicks(_, _, _, _, _, _)
\* the tryClick calls of clickNextPage, one per selector that matches an
\* element and a last one for the text fallback; effs[i] says what the i-th
\* activation does: "now", it takes effect before the post-advance wait and
\* the sleep of its tryClick are over; "late", the wait times out and it
\* takes effect during the wait of the next tryClick; "none", the wait times
\* out and it never takes effect. Nothing awaits the effect of an activation
\* once its tryClick has returned, so when it lands is up to the site.
tryClicks(v, before, effs, i, n, pageSize) ==
  IF i > Len(effs) THEN [moved |-> FALSE, v |-> v]
  ELSE LET v1 == IF i > 1 /\ effs[i - 1] = "late"
                 THEN NextView(v, n, pageSize) ELSE v
           v2 == IF effs[i] = "now" THEN NextView(v1, n, pageSize) ELSE v1
           after == SignatureOf[v2.rows]
       IN  IF after # << >> /\ after # before THEN [moved |-> TRUE, v |-> v2]
           ELSE tryClicks(v2, before, effs, i + 1, n, pageSize)

clickNextPage(v, effs, n, pageSize) ==
  tryClicks(v, SignatureOf[v.rows], effs, 1, n, pageSize)

\* the activations of one call: up to MaxCands candidates, and what each does
MaxCands == 2
Effects == { "now", "late", "none" }
EffSeqs(E) == UNION { [1..k -> E] : k \in 1..MaxCands }

\* the activations the harvest loops are explored with: each takes effect in
\* time or never
EffChoices == EffSeqs({ "now", "none" })

----------------------------------------------------------------------------
(* The steps of main and of the two harvest loops *)

\* unknown.slice(0, 20)
WarnMax == 20

NoIdText == << "(", "n", "o", " ", "i", "d", ")" >>
NoNameText == << "(", "n", "o", " ", "n", "a", "m", "e", ")" >>

RECURSIVE inMonthOf(_, _)
\* normalized.filter((x) => x.monthKey === targetMonth)
inMonthOf(normalized, month) ==
  IF normalized = << >> THEN << >>
  ELSE (IF Head(normalized).monthKey = month THEN << Head(normalized) >> ELSE << >>)
       \o inMonthOf(Tail(normalized), month)

\* a variant of the bootstrap loop without the break at the month boundary
allOlderNever(normalized, month) == FALSE

\* hasAny && normalized.every((x) => x.monthKey < targetMonth)
allOlder(normalized, month) ==
  /\ Len(normalized) > 0
  /\ \A i \in 1..Len(normalized) : StrLess(normalized[i].monthKey, month)

RECURSIVE unseenOf(_, _)
\* the Events of a page that collectNewRowsUntilSeen pushes: !seenSet.has(x.key)
unseenOf(normalized, seen) ==
  IF normalized = << >> THEN << >>
  ELSE (IF Head(normalized).key \notin seen THEN << Head(normalized) >> ELSE << >>)
       \o unseenOf(Tail(normalized), seen)

KeysOf(events) == [i \in 1..Len(events) |-> events[i].key]

ZeroTotal == [revenue |-> 0, count |-> 0]

\* a variant that counts only the Events with a price
addToMonthPricedOnly(monthly, month, unit) ==
  LET cur == IF month \in DOMAIN monthly THEN monthly[month]
             ELSE [revenue |-> 0, count |-> 0]
  IN  (month :> [revenue |-> cur.revenue + unit,
                 count |-> cur.count + (IF unit > 0 THEN 1 ELSE 0)]) @@ monthly

\* cur = monthly[x.monthKey] || {revenue: 0, count: 0}; cur.count += 1; ...
addToMonth(monthly, month, unit) ==
  LET cur == IF month \in DOMAIN monthly THEN monthly[month] ELSE ZeroTotal IN
  (month :> [revenue |-> cur.revenue + unit, count |-> cur.count + 1]) @@ monthly

RECURSIVE bootTotals(_, _, _)
\* the loop of the bootstrap branch: every row is counted in monthly[nowMonth]
bootTotals(monthly, nowMonth, rows) ==
  IF rows = << >> THEN monthly
  ELSE bootTotals(addToMonth(monthly, nowMonth, Head(rows).unit), nowMonth, Tail(rows))

\* a variant that counts every Event in the month of the first one
addTotalsToFirstMonth(monthly, events) ==
  IF events = << >> THEN monthly
  ELSE bootTotals(monthly, Head(events).monthKey, events)

\* a variant that starts the bucket of the first Event's month from zero, as
\* the bootstrap branch does
addTotalsReset(monthly, events) ==
  IF events = << >> THEN monthly
  ELSE bootTotals((Head(events).monthKey :> ZeroTotal) @@ monthly,
                  Head(events).monthKey, events)

RECURSIVE addTotals(_, _)
\* the first loop over newOnes: each Event is counted in its own month
addTotals(monthly, events) ==
  IF events = << >> THEN monthly
  ELSE addTotals(addToMonth(monthly, Head(events).monthKey, Head(events).unit),
                 Tail(events))

RECURSIVE unknownOf(_, _)
\* the entries the first loop over newOnes pushes to unknown
unknownOf(events, prices) ==
  IF events = << >> THEN << >>
  ELSE LET x == Head(events)
           id == trim(x.adId)
           name == trim(x.adName)
           hasId == id # << >> /\ id \in DOMAIN prices.byAdId
           hasName == name # << >> /\ name \in DOMAIN prices.byAdName
           entry == (IF x.adId # << >> THEN x.adId ELSE NoIdText) \o << " " >>
                    \o (IF x.adName # << >> THEN x.adName ELSE NoNameText)
       IN  (IF x.unit = 0 /\ ~hasId /\ ~hasName THEN << entry >> ELSE << >>)
           \o unknownOf(Tail(events), prices)

\* a page none of whose Events is absent from the seen set
SeenPage(events, seen) == \A e \in Range(events) : e.key \in seen

\* a page that holds an Event and only Events of months before the given one
OlderPage(events, month) ==
  /\ events # << >>
  /\ \A e \in Range(events) : e.monthKey # month /\ StrLess(e.monthKey, month)

VARIABLES
  arrived,      \* rows the site has logged
  clock,        \* index in Months of the current month (Asia/Tokyo)
  cfg,          \* the site's page size, MAX_PAGES, MAX_PAGES_NORMAL
  disk,         \* cv_data.json: initialized, seenKeys, monthly
  pc,           \* where the run of main stands
  st,           \* state, as read at the start of the run and changed in memory
  seenSet,      \* new Set(state.seenKeys)
  targetMonth,  \* collectThisMonthRows' targetMonth
  p,            \* the loop counter of the harvest
  out,          \* the harvest's out
  view,         \* the page the browser shows: its number and its rows
  newOnes,      \* main's newOnes
  unknown,      \* main's unknown
  ni,           \* index of the next Event to notify
  sent,         \* the messages postSlack delivered in this run, in order
  run,          \* runs of main started so far
  mode,         \* "boot" or "inc": the branch the run took (history)
  nExtract,     \* extractions of the run so far (history)
  nAdvance,     \* calls of clickNextPage of the run so far (history)
  olderAt,      \* the extraction that first met an all-older page, or 0 (history)
  zeroAt,       \* the extraction that first met a page with no new Event, or 0 (history)
  adv,          \* the last call of clickNextPage of the harvest (history)
  envFault,     \* an advance found no effective pager though a next page existed
  disk0,        \* cv_data.json at the start of the run (history)
  arr0,         \* arrived at the start of the run (history)
  prev,         \* the run that ended last: its branch, outcome, table (history)
  anyFailed,    \* some run so far ended with an error (history)
  notified,     \* the fingerprints notified by the runs that have ended (history)
  fn            \* a pure function applied to drawn arguments, and its result

vars ==
  << arrived, clock, cfg, disk, pc, st, seenSet, targetMonth, p, out, view,
     newOnes, unknown, ni, sent, run, mode, nExtract, nAdvance, olderAt, zeroAt,
     adv, envFault, disk0, arr0, prev, anyFailed, notified, fn >>

envVars == << arrived, clock, cfg, fn >>
locals == << st, seenSet, targetMonth, p, out, view, newOnes, unknown, ni >>
ghosts ==
  << mode, nExtract, nAdvance, olderAt, zeroAt, adv, envFault, disk0, arr0 >>
ended == << prev, anyFailed >>

\* the Event messages among those of this run
EventIdx == { i \in 1..Len(sent) : sent[i].kind = "event" }

\* readJson's fallback for a missing cv_data.json
EmptyState == [initialized |-> FALSE, seenKeys |-> << >>, monthly |-> << >>]

NoAdv == [called |-> FALSE, moved |-> FALSE, changed |-> FALSE]
NoView == [pageNo |-> 0, rows |-> << >>]
NoCall == [op |-> "none", done |-> FALSE]
NoRun == [kind |-> "none", outcome |-> "none", arr0 |-> 0]

\* MAX_PAGES is held at the bound; MAX_PAGES_NORMAL and the page size vary
Configs ==
  [ pageSize : 1..MaxPageSize, maxPages : {MaxPagesBound},
    maxPagesNormal : 1..MaxPagesBound ]

Init ==
  /\ arrived \in 0..MaxRows
  /\ \A i \in 1..arrived : ~StrLess(Months[1], RowMonth(i))
  /\ clock = 1
  /\ cfg \in Configs
  /\ disk = EmptyState
  /\ pc = "idle"
  /\ st = EmptyState
  /\ seenSet = {}
  /\ targetMonth = << >>
  /\ p = 0
  /\ out = << >>
  /\ view = NoView
  /\ newOnes = << >>
  /\ unknown = << >>
  /\ ni = 0
  /\ sent = << >>
  /\ run = 0
  /\ mode = "none"
  /\ nExtract = 0
  /\ nAdvance = 0
  /\ olderAt = 0
  /\ zeroAt = 0
  /\ adv = NoAdv
  /\ envFault = FALSE
  /\ disk0 = EmptyState
  /\ arr0 = 0
  /\ prev = NoRun
  /\ anyFailed = FALSE
  /\ notified = {}
  /\ fn = NoCall

\* the record of a run that ends now with the given outcome: "saved" (state
\* written), "nonew" (returned on no new Event) or "failed"
RunRecord(outcome) == [kind |-> mode, outcome |-> outcome, arr0 |-> arr0]

Ends(outcome) ==
  /\ UNCHANGED notified
  /\ prev' = RunRecord(outcome)
  /\ anyFailed' = (anyFailed \/ outcome = "failed")

\* the run reads the log and the clock only where it renders a page, reads
\* the month or ends; the site's steps are taken at those points
SiteStepSeen == pc \in {"idle", "bootAdvance", "bootDone", "incAdvance"}

(* the site logs a row; the month changes *)
Arrive ==
  /\ SiteStepSeen
  /\ arrived < MaxRows
  /\ ~StrLess(Months[clock], RowMonth(arrived + 1))
  /\ arrived' = arrived + 1
  /\ UNCHANGED << clock, cfg, fn, disk, pc, locals, sent, run, ghosts, ended, notified >>

Tick ==
  /\ SiteStepSeen
  /\ clock < Len(Months)
  /\ clock' = clock + 1
  /\ UNCHANGED << arrived, cfg, fn, disk, pc, locals, sent, run, ghosts, ended, notified >>

(* main up to the branch on state.initialized: readJson, login, goto *)
Start ==
  /\ pc = "idle"
  /\ run < MaxRuns
  /\ run' = run + 1
  /\ st' = disk
  /\ seenSet' = Range(disk.seenKeys)
  /\ view' = FirstView(arrived, cfg.pageSize)
  /\ p' = 0
  /\ out' = << >>
  /\ newOnes' = << >>
  /\ unknown' = << >>
  /\ ni' = 0
  /\ IF ~disk.initialized
     THEN /\ pc' = "bootExtract"
          /\ mode' = "boot"
          /\ targetMonth' = Months[clock]
     ELSE /\ pc' = "incExtract"
          /\ mode' = "inc"
          /\ targetMonth' = << >>
  /\ nExtract' = 0
  /\ nAdvance' = 0
  /\ olderAt' = 0
  /\ zeroAt' = 0
  /\ adv' = NoAdv
  /\ envFault' = FALSE
  /\ disk0' = disk
  /\ arr0' = arrived
  /\ UNCHANGED << envVars, disk, sent, ended, notified >>

\* the run ends with an error before anything was written
Fail ==
  /\ pc' = "failed"
  /\ Ends("failed")
  /\ UNCHANGED << envVars, disk, locals, sent, run, ghosts >>

\* a variant in which the timeout of waitForCvTable ends the harvest loop
\* instead of the run
ExtractTimeoutEndsHarvest ==
  /\ pc \in {"bootExtract", "incExtract"}
  /\ ~ReadyOf[view.rows]
  /\ pc' = IF pc = "bootExtract" THEN "bootDone" ELSE "incDone"
  /\ UNCHANGED << envVars, disk, locals, sent, run, ghosts, ended, notified >>

(* waitForCvTable times out: no table with the three headers and a row *)
ExtractTimeout ==
  /\ pc \in {"bootExtract", "incExtract"}
  /\ ~ReadyOf[view.rows]
  /\ Fail

(* page.$ or the activation throws: the browser is gone *)
AdvanceThrows ==
  /\ pc \in {"bootAdvance", "incAdvance"}
  /\ Fail

(* postSlack throws: the webhook answered with an error *)
NotifyFails ==
  /\ pc \in {"notify", "warn"}
  /\ Fail

\* the Events of the page in view
PageEvents == EventsOf[view.rows]

(* collectThisMonthRows: the loop body up to the break on allOlder *)
BootExtract ==
  /\ pc = "bootExtract"
  /\ ReadyOf[view.rows]
  /\ LET normalized == PageEvents IN
     /\ out' = out \o inMonthOf(normalized, targetMonth)
     /\ nExtract' = nExtract + 1
     /\ IF allOlder(normalized, targetMonth)
        THEN pc' = "bootDone"
        ELSE pc' = "bootAdvance"
     /\ olderAt' = IF olderAt = 0 /\ OlderPage(normalized, targetMonth)
                   THEN nExtract + 1 ELSE olderAt
  /\ adv' = NoAdv
  /\ UNCHANGED << envVars, disk, st, seenSet, targetMonth, p, view, newOnes,
                  unknown, ni, sent, run, mode, nAdvance, zeroAt, envFault, disk0,
                  arr0,
                  ended, notified >>

\* a variant of the loops without the test p < maxPages
AdvanceUnbounded(maxPages, again, done) ==
  \E effs \in EffChoices :
    LET r == clickNextPage(view, effs, arrived, cfg.pageSize)
        before == SignatureOf[view.rows]
        after == SignatureOf[r.v.rows]
    IN  /\ view' = r.v
        /\ nAdvance' = nAdvance + 1
        /\ adv' = [called |-> TRUE, moved |-> r.moved, changed |-> (after # before)]
        /\ envFault' = (envFault \/ (HasNext(arrived, view.pageNo, cfg.pageSize)
                                     /\ \A i \in 1..Len(effs) : effs[i] # "now"))
        /\ p' = IF r.moved THEN p + 1 ELSE p
        /\ pc' = IF r.moved THEN again ELSE done
        /\ UNCHANGED << envVars, disk, st, seenSet, targetMonth, out, newOnes,
                        unknown, ni, sent, run, mode, nExtract, olderAt, zeroAt,
                        disk0, arr0, ended, notified >>

\* the rest of a loop body: clickNextPage, break unless it moved, p++
Advance(maxPages, again, done) ==
  \E effs \in EffChoices :
    LET r == clickNextPage(view, effs, arrived, cfg.pageSize)
        before == SignatureOf[view.rows]
        after == SignatureOf[r.v.rows]
    IN  /\ view' = r.v
        /\ nAdvance' = nAdvance + 1
        /\ adv' = [called |-> TRUE, moved |-> r.moved, changed |-> (after # before)]
        /\ envFault' = (envFault \/ (HasNext(arrived, view.pageNo, cfg.pageSize)
                                     /\ \A i \in 1..Len(effs) : effs[i] # "now"))
        /\ IF r.moved
           THEN /\ p' = p + 1
                /\ pc' = IF p + 1 < maxPages THEN again ELSE done
           ELSE /\ p' = p
                /\ pc' = done
        /\ UNCHANGED << envVars, disk, st, seenSet, targetMonth, out, newOnes,
                        unknown, ni, sent, run, mode, nExtract, olderAt, zeroAt,
                        disk0,
                        arr0, ended, notified >>

BootAdvance ==
  /\ pc = "bootAdvance"
  /\ Advance(cfg.maxPages, "bootExtract", "bootDone")

\* a variant of the bootstrap branch without its return: the state is
\* written and main goes on into the incremental branch
BootFinishFallsThrough ==
  /\ pc = "bootDone"
  /\ LET monthRows == uniqByKey(out)
         nowMonth == Months[clock]
         st2 == [ initialized |-> TRUE,
                  seenKeys |-> mergeSeenKeys(st.seenKeys, KeysOf(monthRows), MaxItems),
                  monthly |-> bootTotals((nowMonth :> ZeroTotal) @@ st.monthly,
                                         nowMonth, monthRows) ]
     IN  /\ st' = st2
         /\ disk' = st2
  /\ pc' = "incExtract"
  /\ out' = << >>
  /\ p' = 0
  /\ UNCHANGED << envVars, seenSet, targetMonth, view, newOnes, unknown, ni,
                  sent, run, ghosts, ended, notified >>

\* a variant of the bootstrap branch that writes the state without setting
\* initialized
BootFinishNotInitialized ==
  /\ pc = "bootDone"
  /\ LET monthRows == uniqByKey(out)
         nowMonth == Months[clock]
         st2 == [ initialized |-> FALSE,
                  seenKeys |-> mergeSeenKeys(st.seenKeys, KeysOf(monthRows), MaxItems),
                  monthly |-> bootTotals((nowMonth :> ZeroTotal) @@ st.monthly,
                                         nowMonth, monthRows) ]
     IN  /\ st' = st2
         /\ disk' = st2
         /\ Ends("saved")
  /\ pc' = "done"
  /\ UNCHANGED << envVars, seenSet, targetMonth, p, out, view, newOnes, unknown,
                  ni, sent, run, ghosts >>

(* main, the bootstrap branch after collectThisMonthRows returned *)
BootFinish ==
  /\ pc = "bootDone"
  /\ LET monthRows == uniqByKey(out)
         nowMonth == Months[clock]
         st2 == [ initialized |-> TRUE,
                  seenKeys |-> mergeSeenKeys(st.seenKeys, KeysOf(monthRows), MaxItems),
                  monthly |-> bootTotals((nowMonth :> ZeroTotal) @@ st.monthly,
                                         nowMonth, monthRows) ]
     IN  /\ st' = st2
         /\ disk' = st2
         /\ Ends("saved")
  /\ pc' = "done"
  /\ UNCHANGED << envVars, seenSet, targetMonth, p, out, view, newOnes, unknown,
                  ni, sent, run, ghosts >>

\* a variant of the loop body without the break on newCount === 0
IncExtractNoBreak ==
  /\ pc = "incExtract"
  /\ ReadyOf[view.rows]
  /\ out' = out \o unseenOf(PageEvents, seenSet)
  /\ pc' = "incAdvance"
  /\ nExtract' = nExtract + 1
  /\ zeroAt' = IF zeroAt = 0 /\ SeenPage(PageEvents, seenSet)
               THEN nExtract + 1 ELSE zeroAt
  /\ adv' = NoAdv
  /\ UNCHANGED << envVars, disk, st, seenSet, targetMonth, p, view, newOnes,
                  unknown, ni, sent, run, mode, nAdvance, olderAt, envFault,
                  disk0, arr0, ended, notified >>

(* collectNewRowsUntilSeen: the loop body up to the break on newCount === 0 *)
IncExtract ==
  /\ pc = "incExtract"
  /\ ReadyOf[view.rows]
  /\ LET fresh == unseenOf(PageEvents, seenSet) IN
     /\ out' = out \o fresh
     /\ pc' = IF Len(fresh) = 0 THEN "incDone" ELSE "incAdvance"
  /\ nExtract' = nExtract + 1
  /\ zeroAt' = IF zeroAt = 0 /\ SeenPage(PageEvents, seenSet)
               THEN nExtract + 1 ELSE zeroAt
  /\ adv' = NoAdv
  /\ UNCHANGED << envVars, disk, st, seenSet, targetMonth, p, view, newOnes,
                  unknown, ni, sent, run, mode, nAdvance, olderAt, envFault,
                  disk0, arr0, ended, notified >>

IncAdvance ==
  /\ pc = "incAdvance"
  /\ Advance(cfg.maxPagesNormal, "incExtract", "incDone")

(* main after collectNewRowsUntilSeen returned: the return on no new Event, *)
(* or the first loop over newOnes                                          *)
Aggregate ==
  /\ pc = "incDone"
  /\ LET found == uniqByKey(out) IN
     /\ newOnes' = found
     /\ IF Len(found) = 0
        THEN /\ pc' = "done"
             /\ Ends("nonew")
             /\ UNCHANGED << st, unknown, ni >>
        ELSE /\ pc' = "notify"
             /\ st' = [st EXCEPT !.monthly = addTotals(st.monthly, found)]
             /\ unknown' = unknownOf(found, Prices)
             /\ ni' = 1
             /\ UNCHANGED << ended, notified >>
  /\ UNCHANGED << envVars, disk, seenSet, targetMonth, p, out, view, sent, run,
                  ghosts >>

\* a variant with the two loops over newOnes fused: the message of the ni-th
\* Event shows the total after the first ni Events were added
EventMessageRunning(x) ==
  [ kind |-> "event", key |-> x.key, eventAt |-> x.eventAt,
    adName |-> x.adName, siteName |-> x.siteName, unit |-> x.unit,
    monthKey |-> x.monthKey,
    total |-> addTotals(disk.monthly, SubSeq(newOnes, 1, ni))[x.monthKey].revenue ]

\* the message of the second loop over newOnes for Event x
EventMessage(x) ==
  [ kind |-> "event", key |-> x.key, eventAt |-> x.eventAt,
    adName |-> x.adName, siteName |-> x.siteName, unit |-> x.unit,
    monthKey |-> x.monthKey,
    total |-> IF x.monthKey \in DOMAIN st.monthly
              THEN st.monthly[x.monthKey].revenue ELSE 0 ]

\* a variant of the second loop that writes cv_data.json with each message
NotifySavesFirst ==
  /\ pc = "notify"
  /\ disk' = st
  /\ sent' = Append(sent, EventMessage(newOnes[ni]))
  /\ ni' = ni + 1
  /\ pc' = IF ni < Len(newOnes) THEN "notify"
           ELSE IF Len(unknown) > 0 THEN "warn" ELSE "save"
  /\ UNCHANGED << envVars, st, seenSet, targetMonth, p, out, view, newOnes,
                  unknown, run, ghosts, ended, notified >>

(* one postSlack of the second loop over newOnes *)
Notify ==
  /\ pc = "notify"
  /\ sent' = Append(sent, EventMessage(newOnes[ni]))
  /\ ni' = ni + 1
  /\ pc' = IF ni < Len(newOnes) THEN "notify"
           ELSE IF Len(unknown) > 0 THEN "warn" ELSE "save"
  /\ UNCHANGED << envVars, disk, st, seenSet, targetMonth, p, out, view, newOnes,
                  unknown, run, ghosts, ended, notified >>

(* the warning about unresolved prices *)
Warn ==
  /\ pc = "warn"
  /\ sent' = Append(sent, [kind |-> "warn",
                           lines |-> Slice0(unknown, WarnMax)])
  /\ pc' = "save"
  /\ UNCHANGED << envVars, disk, locals, run, ghosts, ended, notified >>

(* mergeSeenKeys and writeJson at the end of an incremental run *)
Save ==
  /\ pc = "save"
  /\ LET st2 == [st EXCEPT !.seenKeys =
                    mergeSeenKeys(st.seenKeys, KeysOf(newOnes), MaxItems)]
     IN  /\ st' = st2
         /\ disk' = st2
         /\ Ends("saved")
  /\ pc' = "done"
  /\ UNCHANGED << envVars, seenSet, targetMonth, p, out, view, newOnes, unknown,
                  ni, sent, run, ghosts >>

(* main has returned or thrown: the browser is closed and the process ends *)
Exit ==
  /\ pc \in {"done", "failed"}
  /\ pc' = "idle"
  /\ st' = EmptyState
  /\ seenSet' = {}
  /\ targetMonth' = << >>
  /\ p' = 0
  /\ out' = << >>
  /\ view' = NoView
  /\ newOnes' = << >>
  /\ unknown' = << >>
  /\ ni' = 0
  /\ mode' = "none"
  /\ nExtract' = 0
  /\ nAdvance' = 0
  /\ olderAt' = 0
  /\ zeroAt' = 0
  /\ adv' = NoAdv
  /\ envFault' = FALSE
  /\ disk0' = EmptyState
  /\ arr0' = 0
  /\ sent' = << >>
  /\ notified' = notified \cup { sent[i].key : i \in EventIdx }
  /\ UNCHANGED << envVars, disk, run, ended >>

Next ==
  \/ Arrive
  \/ Tick
  \/ Start
  \/ ExtractTimeout
  \/ AdvanceThrows
  \/ NotifyFails
  \/ BootExtract
  \/ BootAdvance
  \/ BootFinish
  \/ IncExtract
  \/ IncAdvance
  \/ Aggregate
  \/ Notify
  \/ Warn
  \/ Save
  \/ Exit

Spec == Init /\ [][Next]_vars

----------------------------------------------------------------------------
(* mergeSeenKeys applied to drawn lists and caps *)

\* fingerprints to draw lists from (a fingerprint is never the empty string)
MergeKeys == { << "a" >>, << "b" >>, << "c" >>, << "d" >> }

ListsUpTo(S, n) == UNION { [1..k -> S] : k \in 0..n }

MainIdle ==
  /\ arrived = 0
  /\ clock = 1
  /\ cfg = [pageSize |-> 1, maxPages |-> MaxPagesBound, maxPagesNormal |-> 1]
  /\ disk = EmptyState
  /\ pc = "idle"
  /\ st = EmptyState
  /\ seenSet = {}
  /\ targetMonth = << >>
  /\ p = 0
  /\ out = << >>
  /\ view = NoView
  /\ newOnes = << >>
  /\ unknown = << >>
  /\ ni = 0
  /\ sent = << >>
  /\ run = 0
  /\ mode = "none"
  /\ nExtract = 0
  /\ nAdvance = 0
  /\ olderAt = 0
  /\ zeroAt = 0
  /\ adv = NoAdv
  /\ envFault = FALSE
  /\ disk0 = EmptyState
  /\ arr0 = 0
  /\ prev = NoRun
  /\ anyFailed = FALSE
  /\ notified = {}

mainVars ==
  << arrived, clock, cfg, disk, pc, st, seenSet, targetMonth, p, out, view,
     newOnes, unknown, ni, sent, run, mode, nExtract, nAdvance, olderAt, zeroAt,
     adv, envFault, disk0, arr0, prev, anyFailed, notified >>

InitMerge ==
  /\ MainIdle
  /\ \E a \in ListsUpTo(MergeKeys, MaxListLen), b \in ListsUpTo(MergeKeys, MaxListLen),
        cap \in 1..MaxCap :
       fn = [op |-> "mergeSeenKeys", done |-> FALSE, prev |-> a, add |-> b,
             cap |-> cap, result |-> << >>]

ApplyMerge ==
  /\ fn.op = "mergeSeenKeys"
  /\ ~fn.done
  /\ fn' = [fn EXCEPT !.done = TRUE,
                      !.result = mergeSeenKeys(fn.prev, fn.add, fn.cap)]
  /\ UNCHANGED mainVars

NextMerge == ApplyMerge

SpecMerge == InitMerge /\ [][NextMerge]_vars

----------------------------------------------------------------------------
(* normalizeRows applied to drawn raw rows *)

\* most raw rows of a drawn page
MaxRawRows == 2

\* order time and click time: neither, both, a click time only
RawTimes ==
  { << << >>, << " " >> >>, << << "t" >>, << "u" >> >>, << << >>, << " ", "t" >> >> }

\* ad id and ad name: neither, one of them, both
RawAds ==
  { << << " " >>, << >> >>, << << "7" >>, << >> >>, << << >>, << "A", " " >> >>,
    << << "7" >>, << "A" >> >> }

\* site name and os, with the separator of the key source among the texts
RawSiteOs ==
  { << << "|" >>, << >> >>, << << >>, << "|" >> >> }

RawStatus == { << "o" >>, << "n" >> }

RawRows ==
  { [ orderAt |-> t[1], clickAt |-> t[2], adId |-> a[1], adName |-> a[2],
      siteName |-> so[1], os |-> so[2], referrer |-> << "r" >>, status |-> s ] :
    t \in RawTimes, a \in RawAds, so \in RawSiteOs, s \in RawStatus }

InitNormalize ==
  /\ MainIdle
  /\ \E k \in 1..MaxRawRows : \E rows \in [1..k -> RawRows] :
       fn = [op |-> "normalizeRows", done |-> FALSE, rows |-> rows,
             result |-> << >>]

ApplyNormalize ==
  /\ fn.op = "normalizeRows"
  /\ ~fn.done
  /\ fn' = [fn EXCEPT !.done = TRUE, !.result = normalizeRows(fn.rows, Prices)]
  /\ UNCHANGED mainVars

NextNormalize == ApplyNormalize

SpecNormalize == InitNormalize /\ [][NextNormalize]_vars

----------------------------------------------------------------------------
(* getUnitPrice applied to drawn price tables, ad ids and ad names *)

PriceValues == { 0, 50, 100 }
PricedIds == { << "7" >>, << "8" >> }
PricedNames == { << "A" >>, << "B" >> }

\* the functions from a part of S to T
PartialFns(S, T) == UNION { [D -> T] : D \in SUBSET S }

PriceTables ==
  [ byAdId : PartialFns(PricedIds, PriceValues),
    byAdName : PartialFns(PricedNames, PriceValues),
    defaultUnitPrice : { 0, 30 } ]

InitPrice ==
  /\ MainIdle
  /\ \E prices \in PriceTables,
        adId \in { << >>, << "7" >>, << "9" >> },
        adName \in { << >>, << "A" >>, << "C" >> } :
       fn = [op |-> "getUnitPrice", done |-> FALSE, prices |-> prices,
             adId |-> adId, adName |-> adName, result |-> 0]

ApplyPrice ==
  /\ fn.op = "getUnitPrice"
  /\ ~fn.done
  /\ fn' = [fn EXCEPT !.done = TRUE,
                      !.result = getUnitPrice(fn.prices, fn.adId, fn.adName)]
  /\ UNCHANGED mainVars

NextPrice == ApplyPrice

SpecPrice == InitPrice /\ [][NextPrice]_vars

----------------------------------------------------------------------------
(* The table selections of extractRowsFromBestTable (result) and of         *)
(* getTableSignature (sigTable) applied to drawn documents                 *)

\* most tables of a drawn document
MaxTables == 2

\* thead texts: none, some of the expected headings, one of them inside a
\* longer text, all of them, the status only
HeaderRows ==
  { << >>,
    << HeaderMap.orderAt >>,
    << << "x" >> \o HeaderMap.orderAt, HeaderMap.adId >>,
    << HeaderMap.orderAt, HeaderMap.adId, HeaderMap.adName >>,
    CvHeaders,
    << HeaderMap.status >> }

\* tbody row counts, up to one more than the weight of a heading
RowCounts == { 0, 1, 5, ScoreWeight + 1 }

DrawnTables ==
  { [headers |-> h, rows |-> [i \in 1..k |-> << << "x" >> >>]] :
    h \in HeaderRows, k \in RowCounts }

InitSelect ==
  /\ MainIdle
  /\ \E k \in 1..MaxTables : \E tables \in [1..k -> DrawnTables] :
       fn = [op |-> "bestTable", done |-> FALSE, tables |-> tables, result |-> 0,
             sigTable |-> 0]

ApplySelect ==
  /\ fn.op = "bestTable"
  /\ ~fn.done
  /\ fn' = [fn EXCEPT !.done = TRUE,
                      !.result = bestTable(fn.tables, NeedExtract(HeaderMap)),
                      !.sigTable = bestTable(fn.tables, NeedSignature(HeaderMap))]
  /\ UNCHANGED mainVars

NextSelect == ApplySelect

SpecSelect == InitSelect /\ [][NextSelect]_vars

----------------------------------------------------------------------------
(* clickNextPage applied to drawn views and activations, late ones included *)

\* the views of the logs of up to MaxRows rows: page 1, or a page with a row
DrawnViews ==
  { d \in [n : 0..MaxRows, pageSize : 1..MaxPageSize, pageNo : 1..MaxRows] :
      d.pageNo = 1 \/ PageRows(d.n, d.pageNo, d.pageSize) # << >> }

InitClick ==
  /\ MainIdle
  /\ \E d \in DrawnViews, effs \in EffSeqs(Effects) :
       fn = [op |-> "clickNextPage", done |-> FALSE, n |-> d.n,
             pageSize |-> d.pageSize,
             view |-> [pageNo |-> d.pageNo,
                       rows |-> PageRows(d.n, d.pageNo, d.pageSize)],
             effs |-> effs, moved |-> FALSE, after |-> NoView]

ApplyClick ==
  /\ fn.op = "clickNextPage"
  /\ ~fn.done
  /\ LET r == clickNextPage(fn.view, fn.effs, fn.n, fn.pageSize) IN
     fn' = [fn EXCEPT !.done = TRUE, !.moved = r.moved, !.after = r.v]
  /\ UNCHANGED mainVars

NextClick == ApplyClick

SpecClick == InitClick /\ [][NextClick]_vars

----------------------------------------------------------------------------
(* Properties *)

\* the fingerprint of row i of the log
RowKey(i) == EventsOf[<< i >>][1].key

\* C1: when every run so far has completed (none ended with an error), no
\* fingerprint notified by the run that has just completed was notified by
\* an earlier run.
C1_NotifiedInOneRunOnly ==
  (pc = "done" /\ ~anyFailed) =>
    \A i \in EventIdx : sent[i].key \notin notified

\* the incremental harvest of the run has returned (newOnes is what it found)
IncHarvestReturned == mode = "inc" /\ pc \in {"notify", "warn", "save", "done"}

\* C3: an incremental run that follows an incremental run which completed
\* and wrote its state, with the table the same from the start of that run on,
\* finds no new Event.
C3_IdempotentRerun ==
  ( /\ IncHarvestReturned
    /\ pc # "done"
    /\ prev.kind = "inc"
    /\ prev.outcome = "saved"
    /\ prev.arr0 = arrived )
  => Len(newOnes) = 0

\* C4: an incremental run that follows a completed bootstrap run, with the
\* table the same from the start of the bootstrap on, finds no new Event.
C4_BootstrapSeedsAllRows ==
  ( /\ IncHarvestReturned
    /\ pc # "done"
    /\ prev.kind = "boot"
    /\ prev.outcome = "saved"
    /\ prev.arr0 = arrived )
  => Len(newOnes) = 0

\* does row i of the log yield an Event whose fingerprint is not in seen
RowIsNew(i, seen) == EventsOf[<< i >>] # << >> /\ RowKey(i) \notin seen

\* the number of rows that lead the log of n rows and are new
LeadNew(n, seen) ==
  CHOOSE k \in 0..n :
    /\ \A i \in 1..k : RowIsNew(n - i + 1, seen)
    /\ k < n => ~RowIsNew(n - k, seen)

\* ceil(k / pageSize)
PagesFor(k, pageSize) == (k + pageSize - 1) \div pageSize

CountIn(seq, x) == Cardinality({ i \in 1..Len(seq) : seq[i] = x })

\* the premise of C2 for the run whose harvest has returned: N >= 1 new rows
\* led the table when the run read it, the table stayed as it was, every
\* advance with a next page found an effective pager, and MAX_PAGES_NORMAL is
\* at least ceil(N / pageSize) + 1
BurstCovered ==
  /\ IncHarvestReturned
  /\ arrived = arr0
  /\ ~envFault
  /\ LeadNew(arr0, seenSet) >= 1
  /\ cfg.maxPagesNormal >= PagesFor(LeadNew(arr0, seenSet), cfg.pageSize) + 1

C5_FailedRunKeepsState == pc = "failed" => disk = disk0

\* a run that failed after it changed state in memory and sent a message
C5_Witness ==
  /\ pc = "failed"
  /\ st # disk
  /\ sent # << >>
  /\ ni <= Len(newOnes)

\* C6: no message is sent in a run that took the bootstrap branch.
C6_BootstrapIsSilent == mode = "boot" => sent = << >>

\* a bootstrap run that collected two Events over two pages and completed
C6_Witness ==
  /\ mode = "boot"
  /\ pc = "done"
  /\ prev = [kind |-> "boot", outcome |-> "saved", arr0 |-> arr0]
  /\ Len(disk.seenKeys) >= 2
  /\ nExtract >= 2
  /\ sent = << >>

\* the harvest of the page sequence [2024-06, 2024-06, 2024-05, 2024-05] has
\* returned: four rows, one a page, the pager effective
FourPageWalk ==
  /\ mode = "boot"
  /\ pc = "bootDone"
  /\ arr0 = 4
  /\ arrived = 4
  /\ cfg.pageSize = 1
  /\ targetMonth = M06
  /\ ~envFault

\* C7: in a bootstrap run, once a page with an Event and with only Events of
\* months before targetMonth has been extracted, there is no further
\* extraction and no advance; every Event collected is of targetMonth; and
\* the page sequence [06, 06, 05, 05] ends after three extractions with the
\* two Events of 2024-06.
C7_MonthBoundaryStop ==
  /\ (mode = "boot" /\ olderAt > 0) =>
       (nExtract = olderAt /\ nAdvance = olderAt - 1)
  /\ mode = "boot" => \A e \in Range(uniqByKey(out)) : e.monthKey = targetMonth
  /\ FourPageWalk =>
       (nExtract = 3 /\ KeysOf(uniqByKey(out)) = << RowKey(4), RowKey(3) >>)

C7_Witness == FourPageWalk /\ olderAt = 3 /\ nAdvance = 2

\* C10: a call of clickNextPage that returned true left a signature that
\* differs from the one before the call; a call that left the signature
\* unchanged returned false, and the harvest loop did not go on to another
\* extraction.
C10_MovedOnlyOnChange ==
  adv.called =>
    /\ adv.moved => adv.changed
    /\ ~adv.changed => (~adv.moved /\ pc \notin {"bootExtract", "incExtract"})

\* an advance with a next page to go to whose activations had no effect
C10_Witness ==
  /\ adv.called
  /\ ~adv.changed
  /\ envFault
  /\ pc = "incDone"
  /\ out # << >>

RECURSIVE keepLast(_)
\* s without every element that occurs again later in s
keepLast(s) ==
  IF s = << >> THEN << >>
  ELSE (IF Head(s) \in Range(Tail(s)) THEN << >> ELSE << Head(s) >>)
       \o keepLast(Tail(s))

\* the last n elements of s
LastN(s, n) == IF Len(s) <= n THEN s ELSE SubSeq(s, Len(s) - n + 1, Len(s))

\* C8: mergeSeenKeys(prev, add, cap) is prev ++ add with only the last
\* occurrence of each value kept, cut to its last cap entries.
C8_MergeKeepsLastThenCaps ==
  (fn.op = "mergeSeenKeys" /\ fn.done) =>
    fn.result = LastN(keepLast(fn.prev \o fn.add), fn.cap)

\* merge([a, b, c], [b, d], 3) = [c, b, d]
C8_Witness ==
  /\ fn.op = "mergeSeenKeys"
  /\ fn.done
  /\ fn.prev = << << "a" >>, << "b" >>, << "c" >> >>
  /\ fn.add = << << "b" >>, << "d" >> >>
  /\ fn.cap = 3
  /\ fn.result = << << "c" >>, << "b" >>, << "d" >> >>

\* C9: the list mergeSeenKeys returns has at most cap entries and no value
\* twice.
C9_MergeCappedAndDistinct ==
  (fn.op = "mergeSeenKeys" /\ fn.done) =>
    /\ Len(fn.result) <= fn.cap
    /\ \A i, j \in 1..Len(fn.result) : fn.result[i] = fn.result[j] => i = j

\* a merge that dropped both a duplicate and an entry over the cap
C9_Witness ==
  /\ fn.op = "mergeSeenKeys"
  /\ fn.done
  /\ Len(fn.result) = fn.cap
  /\ Cardinality(Range(fn.prev \o fn.add)) > fn.cap
  /\ Len(fn.prev \o fn.add) > Cardinality(Range(fn.prev \o fn.add))

\* C11: in an incremental run, once a page with no Event absent from the seen
\* set has been extracted there is no advance and no further extraction, and
\* a page the run is about to advance past holds an Event that is new.
C11_StopsAtFirstSeenPage ==
  mode = "inc" =>
    /\ zeroAt > 0 => (nExtract = zeroAt /\ nAdvance = zeroAt - 1)
    /\ pc = "incAdvance" => ~SeenPage(EventsOf[view.rows], seenSet)

\* two pages with a new Event were advanced past, the third had none
C11_Witness ==
  /\ mode = "inc"
  /\ zeroAt = 3
  /\ nAdvance = 2
  /\ pc = "notify"
  /\ Len(newOnes) >= 2

\* the warnings among the messages of this run
WarnIdx == { i \in 1..Len(sent) : sent[i].kind = "warn" }

\* an incremental run has completed: it notified and wrote its state
IncRunCompleted == mode = "inc" /\ pc = "done" /\ prev.outcome = "saved"

\* C12: an incremental run that completes sends one event message per new
\* Event, in their order, and one warning if and only if some new Event has
\* the unit price 0; the warning lists at most 20 entries.
C12_OneMessagePerEventAndWarning ==
  IncRunCompleted =>
    /\ Cardinality(EventIdx) = Len(newOnes)
    /\ \A e \in Range(newOnes) :
         Cardinality({ i \in EventIdx : sent[i].key = e.key }) = 1
    /\ Cardinality(WarnIdx) =
         IF \E e \in Range(newOnes) : e.unit = 0 THEN 1 ELSE 0
    /\ \A i \in WarnIdx : Len(sent[i].lines) <= WarnMax

\* the bucket of month m, absent buckets read as zero
Bucket(monthly, m) == IF m \in DOMAIN monthly THEN monthly[m] ELSE ZeroTotal

CountOfMonth(events, m) ==
  Cardinality({ i \in 1..Len(events) : events[i].monthKey = m })

RECURSIVE RevenueOfMonth(_, _)
RevenueOfMonth(events, m) ==
  IF events = << >> THEN 0
  ELSE (IF Head(events).monthKey = m THEN Head(events).unit ELSE 0)
       + RevenueOfMonth(Tail(events), m)

\* the first loop over newOnes has run (or the run returned on no new Event)
Aggregated ==
  /\ mode = "inc"
  /\ pc \in {"notify", "warn", "save", "done"}

\* C13: in an incremental run, the bucket of every month grows by the number
\* of new Events of that month and by the sum of their unit prices; a month
\* with no new Event keeps its bucket, or stays without one; and this is
\* what a completed run writes.
C13_TotalsGrowByAccepted ==
  Aggregated =>
    /\ \A m \in DOMAIN st.monthly \cup DOMAIN disk0.monthly
                \cup { newOnes[i].monthKey : i \in 1..Len(newOnes) } :
         IF CountOfMonth(newOnes, m) = 0
         THEN /\ (m \in DOMAIN st.monthly) = (m \in DOMAIN disk0.monthly)
              /\ Bucket(st.monthly, m) = Bucket(disk0.monthly, m)
         ELSE /\ m \in DOMAIN st.monthly
              /\ st.monthly[m].count =
                   Bucket(disk0.monthly, m).count + CountOfMonth(newOnes, m)
              /\ st.monthly[m].revenue =
                   Bucket(disk0.monthly, m).revenue + RevenueOfMonth(newOnes, m)
    /\ pc = "done" => disk.monthly = st.monthly

\* a completed run that added an Event to a bucket that was not empty and
\* two Events to another month
C13_Witness ==
  /\ IncRunCompleted
  /\ \E m \in DOMAIN disk0.monthly :
       /\ disk0.monthly[m].count > 0
       /\ CountOfMonth(newOnes, m) = 1
       /\ RevenueOfMonth(newOnes, m) > 0
  /\ \E m \in DOMAIN disk.monthly : CountOfMonth(newOnes, m) = 2

\* C14: the monthly totals written by a run keep every bucket that was in
\* cv_data.json when the run started, with a count and a revenue that are
\* not less.
C14_TotalsMonotonic ==
  \A m \in DOMAIN disk0.monthly :
    /\ m \in DOMAIN disk.monthly
    /\ disk.monthly[m].count >= disk0.monthly[m].count
    /\ disk.monthly[m].revenue >= disk0.monthly[m].revenue

\* a third run has written totals over those of two earlier runs
C14_Witness ==
  /\ IncRunCompleted
  /\ run = 3
  /\ \E m \in DOMAIN disk0.monthly :
       /\ disk0.monthly[m].count >= 2
       /\ disk.monthly[m].count > disk0.monthly[m].count
       /\ disk.monthly[m].revenue > disk0.monthly[m].revenue

\* a text of white space only (or empty)
Blank(s) == \A i \in 1..Len(s) : s[i] \in WhiteSpace

\* a raw row with an event time and an ad key
Kept(r) ==
  /\ ~Blank(r.orderAt) \/ ~Blank(r.clickAt)
  /\ ~Blank(r.adId) \/ ~Blank(r.adName)

\* the place in the output of the Event of row i, when row i is kept
Pos(rows, i) == Cardinality({ k \in 1..i : Kept(rows[k]) })

\* two raw rows equal in every field but, possibly, the status
SameButStatus(a, b) == [a EXCEPT !.status = << >>] = [b EXCEPT !.status = << >>]

NormalizeDone == fn.op = "normalizeRows" /\ fn.done

\* C15: two rows of a page that differ in the status only yield Events with
\* the same fingerprint (or both yield none).
C15_StatusNotInFingerprint ==
  NormalizeDone =>
    \A i, j \in 1..Len(fn.rows) :
      (SameButStatus(fn.rows[i], fn.rows[j]) /\ Kept(fn.rows[i])) =>
        /\ Pos(fn.rows, j) <= Len(fn.result)
        /\ fn.result[Pos(fn.rows, i)].key = fn.result[Pos(fn.rows, j)].key

\* two kept rows with different statuses and one fingerprint
C15_Witness ==
  /\ NormalizeDone
  /\ Len(fn.rows) = 2
  /\ fn.rows[1].status # fn.rows[2].status
  /\ SameButStatus(fn.rows[1], fn.rows[2])
  /\ Len(fn.result) = 2
  /\ fn.result[1].key = fn.result[2].key

\* the ad key of an Event
AdKeyOf(e) == IF e.adId # << >> THEN e.adId ELSE e.adName

\* C16: two Events of a page that differ in the event time, the ad key, the
\* site name, the os or the referrer have different fingerprints.
C16_FingerprintDiscriminates ==
  NormalizeDone =>
    \A i, j \in 1..Len(fn.result) :
      LET a == fn.result[i]
          b == fn.result[j]
      IN  ( \/ a.eventAt # b.eventAt
            \/ AdKeyOf(a) # AdKeyOf(b)
            \/ a.siteName # b.siteName
            \/ a.os # b.os
            \/ a.referrer # b.referrer ) => a.key # b.key

\* C19: normalizeRows yields one Event for each row that has an event time
\* and an ad key after white space is normalized, none for the other rows,
\* in the order of the rows.
C19_KeptRowsInOrder ==
  NormalizeDone =>
    /\ Len(fn.result) = Pos(fn.rows, Len(fn.rows))
    /\ \A i \in 1..Len(fn.rows) :
         Kept(fn.rows[i]) =>
           LET e == fn.result[Pos(fn.rows, i)]
               r == fn.rows[i]
           IN  /\ e.orderAt = norm(r.orderAt)
               /\ e.clickAt = norm(r.clickAt)
               /\ e.eventAt = IF Blank(r.orderAt) THEN norm(r.clickAt)
                               ELSE norm(r.orderAt)
               /\ e.adId = norm(r.adId)
               /\ e.adName = norm(r.adName)
               /\ AdKeyOf(e) = IF Blank(r.adId) THEN norm(r.adName)
                                ELSE norm(r.adId)
               /\ e.siteName = norm(r.siteName)
               /\ e.os = norm(r.os)

\* a page whose first row is dropped and whose second
\* row is kept on its click time and its ad name
C19_Witness ==
  /\ NormalizeDone
  /\ Len(fn.rows) = 2
  /\ ~Kept(fn.rows[1])
  /\ Blank(fn.rows[2].orderAt)
  /\ Blank(fn.rows[2].adId)
  /\ Len(fn.result) = 1
  /\ fn.result[1].eventAt = << "t" >>
  /\ AdKeyOf(fn.result[1]) = << "A" >>

PriceDone == fn.op = "getUnitPrice" /\ fn.done

\* C17: getUnitPrice returns the byAdId entry of the ad id when there is
\* one, else the byAdName entry of the ad name when there is one, else
\* defaultUnitPrice.
C17_PriceByIdThenNameThenDefault ==
  PriceDone =>
    fn.result =
      IF fn.adId # << >> /\ fn.adId \in DOMAIN fn.prices.byAdId
      THEN fn.prices.byAdId[fn.adId]
      ELSE IF fn.adName # << >> /\ fn.adName \in DOMAIN fn.prices.byAdName
           THEN fn.prices.byAdName[fn.adName]
           ELSE fn.prices.defaultUnitPrice

\* an ad with an entry in both tables, of different values: the byAdId one
C17_Witness ==
  /\ PriceDone
  /\ fn.adId \in DOMAIN fn.prices.byAdId
  /\ fn.adName \in DOMAIN fn.prices.byAdName
  /\ fn.prices.byAdId[fn.adId] # fn.prices.byAdName[fn.adName]
  /\ fn.prices.byAdName[fn.adName] # fn.prices.defaultUnitPrice
  /\ fn.result = fn.prices.byAdId[fn.adId]

SelectDone == fn.op = "bestTable" /\ fn.done

\* the number of expected headings that a thead cell of t equals or contains
MatchedHeadings(t) ==
  Cardinality({ i \in 1..Len(NeedExtract(HeaderMap)) :
    \E j \in 1..Len(t.headers) :
      Includes(norm(t.headers[j]), NeedExtract(HeaderMap)[i]) })

\* C18: the table selected has the greatest number of matched headings of
\* the document, whatever the row counts, and among the tables with that
\* number the greatest row count.
C18_HeadingsDominateRows ==
  SelectDone =>
    \A j \in 1..Len(fn.tables) :
      LET best == fn.tables[fn.result]
          t == fn.tables[j]
      IN  /\ MatchedHeadings(t) <= MatchedHeadings(best)
          /\ MatchedHeadings(t) = MatchedHeadings(best) =>
               Len(t.rows) <= Len(best.rows)

\* C20: a run follows the bootstrap branch exactly when the state it loaded
\* has initialized false; a completed bootstrap run has written initialized
\* true; no run writes initialized false over true; and while the file has
\* initialized false no run has completed.
C20_InitializedOnceAndForAll ==
  /\ mode = "boot" => ~disk0.initialized
  /\ mode = "inc" => disk0.initialized
  /\ (mode = "boot" /\ pc = "done") => disk.initialized
  /\ (mode # "none" /\ disk0.initialized) => disk.initialized
  /\ ~disk.initialized =>
       (disk = EmptyState /\ prev.outcome \notin {"saved", "nonew"})

\* a bootstrap run failed, the next one completed, the third run was
\* incremental and completed
C20_Witness ==
  /\ run = 3
  /\ anyFailed
  /\ mode = "inc"
  /\ pc = "done"
  /\ disk.initialized
  /\ Len(disk.seenKeys) > 0

\* the last call of clickNextPage left the signature as it was: the post-advance
\* wait of every one of its activations timed out
AdvanceTimedOut == adv.called /\ ~adv.changed

\* C21: a step from an extraction whose table-appearance wait cannot be
\* satisfied ends the run with an error and leaves cv_data.json alone; after
\* a call of clickNextPage whose post-advance waits all timed out the call has
\* returned false, the harvest loop has ended, an incremental run goes on
\* with the Events collected so far, and the run fails only later, in
\* postSlack.
C21_WaitTimeouts ==
  /\ [][ (pc \in {"bootExtract", "incExtract"} /\ ~ReadyOf[view.rows])
           => (pc' = "failed" /\ disk' = disk /\ anyFailed') ]_vars
  /\ [](AdvanceTimedOut =>
          /\ ~adv.moved
          /\ pc \in {"bootDone", "incDone", "notify", "warn", "save", "done", "failed"}
          /\ pc = "failed" => (mode = "inc" /\ ni >= 1)
          /\ (mode = "inc" /\ pc \in {"notify", "warn", "save", "done"})
               => newOnes = uniqByKey(out))

\* the run before this one met an empty log and failed on the table wait; in
\* this one an advance with a next page to go to timed out and the
\* harvest ended with the Events of the first page
C21_Witness ==
  /\ prev.outcome = "failed"
  /\ prev.arr0 = 0
  /\ mode = "boot"
  /\ pc = "bootDone"
  /\ AdvanceTimedOut
  /\ envFault
  /\ out # << >>

\* C22: for a document of two or more tables, the table getTableSignature
\* reads is the table extractRowsFromBestTable reads.
C22_SignatureOfExtractedTable ==
  (fn.op = "bestTable" /\ fn.done /\ Len(fn.tables) >= 2) =>
    fn.sigTable = fn.result

\* the place in the harvest's out at which fingerprint k was first pushed
FirstPushed(k) ==
  CHOOSE i \in 1..Len(out) :
    /\ out[i].key = k
    /\ \A j \in 1..(i - 1) : out[j].key # k

\* C23: the sequence the incremental harvest returned has no fingerprint
\* twice and none of the seen set, holds every Event the loop pushed, and
\* lists them in the order in which their fingerprints were first pushed.
C23_NewOnesDistinctUnseenInOrder ==
  IncHarvestReturned =>
    /\ \A i, j \in 1..Len(newOnes) : newOnes[i].key = newOnes[j].key => i = j
    /\ \A i \in 1..Len(newOnes) : newOnes[i].key \notin seenSet
    /\ { newOnes[i].key : i \in 1..Len(newOnes) } = { out[i].key : i \in 1..Len(out) }
    /\ \A i \in 1..Len(newOnes) : newOnes[i] = out[FirstPushed(newOnes[i].key)]
    /\ \A i, j \in 1..Len(newOnes) :
         i < j => FirstPushed(newOnes[i].key) < FirstPushed(newOnes[j].key)

\* a row arrived during the walk, so a row read on one page was read again
\* on the next, and an older row was found after it
C23_Witness ==
  /\ IncHarvestReturned
  /\ arrived > arr0
  /\ Len(newOnes) >= 2
  /\ \E i, j \in 1..Len(out) :
       /\ i < j
       /\ out[i].key = out[j].key
       /\ out[i].key # RowKey(4)
       /\ \E k \in (j + 1)..Len(out) : out[k].key # out[j].key

\* the maxPages the harvest of the run was called with
PageBound == IF mode = "boot" THEN cfg.maxPages ELSE cfg.maxPagesNormal

InLoop == pc \in {"bootExtract", "bootAdvance", "incExtract", "incAdvance"}

\* C24: a harvest makes at most maxPages extractions and at most maxPages
\* calls of clickNextPage; before an extraction fewer than maxPages of each
\* have been made, and after the maxPages-th call of clickNextPage the loop
\* has ended; every step of the loop is one more extraction or one more
\* call, so the loop ends after at most 2 * maxPages steps.
C24_HarvestWithinPageBound ==
  /\ [](mode # "none" =>
          /\ nExtract <= PageBound
          /\ nAdvance <= PageBound
          /\ nAdvance <= nExtract
          /\ pc \in {"bootExtract", "incExtract"} =>
               (nExtract = nAdvance /\ nExtract < PageBound)
          /\ pc \in {"bootAdvance", "incAdvance"} => nExtract = nAdvance + 1)
  /\ [][ (InLoop /\ pc' # pc /\ pc' # "failed")
           => nExtract' + nAdvance' = nExtract + nAdvance + 1 ]_vars

\* a bootstrap harvest that ended on the page bound: the last advance moved
\* and the log has a further page
C24_Witness ==
  /\ mode = "boot"
  /\ pc = "bootDone"
  /\ nExtract = cfg.maxPages
  /\ nAdvance = cfg.maxPages
  /\ adv.moved
  /\ HasNext(arrived, view.pageNo, cfg.pageSize)

\* C25: every event message of an incremental run shows, for the month of
\* its Event, the revenue the run started with plus the unit prices of all
\* new Events of that month; messages of one month show one total; and
\* it is the revenue a completed run has written for that month.
C25_TotalAfterAllUpdates ==
  mode = "inc" =>
    /\ \A i \in EventIdx :
         sent[i].total = Bucket(disk0.monthly, sent[i].monthKey).revenue
                           + RevenueOfMonth(newOnes, sent[i].monthKey)
    /\ \A i, j \in EventIdx :
         sent[i].monthKey = sent[j].monthKey => sent[i].total = sent[j].total
    /\ IncRunCompleted =>
         \A i \in EventIdx : sent[i].total = disk.monthly[sent[i].monthKey].revenue

\* a completed run whose first message shows a total that holds the unit
\* price of the Event of the second message
C25_Witness ==
  /\ IncRunCompleted
  /\ Len(sent) >= 2
  /\ sent[1].kind = "event"
  /\ sent[2].kind = "event"
  /\ sent[1].monthKey = sent[2].monthKey
  /\ sent[2].unit > 0
  /\ sent[1].total = Bucket(disk0.monthly, sent[1].monthKey).revenue
                       + sent[1].unit + sent[2].unit

\* C26: a completed bootstrap run has written one bucket, that of the
\* harvest's target month, and it counts the Events the harvest returned,
\* all of them of the target month.
C26_BootstrapBucketIsTargetMonth ==
  (mode = "boot" /\ pc = "done") =>
    /\ DOMAIN disk.monthly = { targetMonth }
    /\ \A m \in DOMAIN disk.monthly :
         /\ disk.monthly[m].count = Len(uniqByKey(out))
         /\ \A e \in Range(uniqByKey(out)) : e.monthKey = m

RECURSIVE SumCounts(_, _)
\* the sum of count over the buckets of the months in ms
SumCounts(monthly, ms) ==
  IF ms = {} THEN 0
  ELSE LET m == CHOOSE x \in ms : TRUE IN
       monthly[m].count + SumCounts(monthly, ms \ {m})

TotalCount(monthly) == SumCounts(monthly, DOMAIN monthly)

\* C27: while cv_data.json holds fewer fingerprints than the cap, or its
\* buckets count fewer Events than the cap, the counts of its buckets add up
\* to the number of its fingerprints.
C27_CountsMatchSeenKeys ==
  (Len(disk.seenKeys) < MaxItems \/ TotalCount(disk.monthly) < MaxItems) =>
    TotalCount(disk.monthly) = Len(disk.seenKeys)

\* a bootstrap run and an incremental run have each written an Event, in
\* different months, one of them without a price
C27_Witness ==
  /\ IncRunCompleted
  /\ Cardinality(DOMAIN disk.monthly) = 2
  /\ Len(disk.seenKeys) = 2
  /\ Len(disk0.seenKeys) = 1
  /\ \E m \in DOMAIN disk.monthly : disk.monthly[m].revenue = 0
  /\ TotalCount(disk.monthly) = 2

\* C28: a call of clickNextPage that returned true left the view on the page
\* that follows the one it was made on.
C28_MovesOnePage ==
  (fn.op = "clickNextPage" /\ fn.done /\ fn.moved) =>
    fn.after.pageNo = fn.view.pageNo + 1

====
